---- MODULE Spec2Model ----
(***************************************************************************)
(* A model of fmi4cpp's modelDescription.xml parser                        *)
(* (src/fmi4cpp/fmi2/xml/ModelDescriptionParser.cpp).                      *)
(*                                                                         *)
(* Text (attribute values, element text) is a sequence of one-character    *)
(* strings, so that the stream conversions can be computed character by    *)
(* character.  A property tree is [data, kids], kids being the ordered     *)
(* list of <<key, subtree>> pairs (ptree::value_type: .first, .second).    *)
(* An optional value is a sequence of length 0 (absent) or 1 (present).    *)
(* A call that can throw yields Ok(v) or Throw(e); Try(r, F) is the rest F *)
(* of a function body after a call that returned r, skipped when r is an   *)
(* exception on its way up.  With(v, F) names a local v for the rest F.    *)
(***************************************************************************)
EXTENDS Integers, Sequences, FiniteSets, TLC

VARIABLES tree, pc, it, local, ret

vars == <<tree, pc, it, local, ret>>

(***************************************************************************)
(* Bounds of the explored inputs.                                          *)
(***************************************************************************)
MaxDepLen == 4
MaxKindLen == 3
MaxIndexLen == 2
MaxRootChildren == 3
MaxListLen == 3

----------------------------------------------------------------------------
(* Optionals and outcomes *)

None == <<>>

Some(x) == <<x>>

Ok(v) == [ok |-> TRUE, val |-> v]

Throw(e) == [ok |-> FALSE, exc |-> e]

With(v, F(_)) == F(v)

Try(r, F(_)) == IF r.ok THEN F(r.val) ELSE r

ptree_bad_path(path) == [type |-> "ptree_bad_path", what |-> "No such node", path |-> path]

ptree_bad_data(data) == [type |-> "ptree_bad_data", what |-> "conversion of data failed", data |-> data]

runtime_error(msg) == [type |-> "runtime_error", what |-> msg]

\* All strings over the alphabet `alpha` of length at most n.
RECURSIVE Strings(_, _)
Strings(alpha, n) ==
    IF n = 0 THEN {<<>>}
    ELSE LET shorter == Strings(alpha, n - 1)
         IN shorter \cup {Append(s, c) : s \in shorter, c \in alpha}

----------------------------------------------------------------------------
(* Formatted stream extraction (std::istream >> T) over a text s from      *)
(* position p (1-based; p = Len(s) + 1 is end of stream).                  *)

Digits == {"0", "1", "2", "3", "4", "5", "6", "7", "8", "9"}

DigitVal(c) ==
    CASE c = "0" -> 0 [] c = "1" -> 1 [] c = "2" -> 2 [] c = "3" -> 3
      [] c = "4" -> 4 [] c = "5" -> 5 [] c = "6" -> 6 [] c = "7" -> 7
      [] c = "8" -> 8 [] c = "9" -> 9

\* std::ws / the sentry of operator>>: the first position at or after p
\* that holds no white space.
RECURSIVE SkipWs(_, _)
SkipWs(s, p) == IF p <= Len(s) /\ s[p] = " " THEN SkipWs(s, p + 1) ELSE p

\* The end of the maximal run of digits starting at p.
RECURSIVE DigitsEnd(_, _)
DigitsEnd(s, p) == IF p <= Len(s) /\ s[p] \in Digits THEN DigitsEnd(s, p + 1) ELSE p

\* The decimal value of the digits s[p .. q-1].
RECURSIVE DigitsValue(_, _, _, _)
DigitsValue(s, p, q, acc) ==
    IF p >= q THEN acc ELSE DigitsValue(s, p + 1, q, acc * 10 + DigitVal(s[p]))

\* is >> i for an integer i: white space is skipped, then an optional sign
\* and a maximal run of digits are consumed; no digit sets failbit.  A '-'
\* in front of an unsigned wraps modulo 2^32, which is outside the range of
\* the explored texts (no explored unsigned text holds '-').
ExtractInteger(s, p, signed) ==
    With(SkipWs(s, p), LAMBDA a :
    With(a <= Len(s) /\ (s[a] = "+" \/ (signed /\ s[a] = "-")), LAMBDA hasSign :
    With(IF hasSign THEN a + 1 ELSE a, LAMBDA b :
    With(DigitsEnd(s, b), LAMBDA e :
    With(DigitsValue(s, b, e, 0), LAMBDA v :
        IF e = b THEN [ok |-> FALSE, val |-> 0, pos |-> b]
        ELSE [ok |-> TRUE, val |-> IF hasSign /\ s[a] = "-" THEN 0 - v ELSE v, pos |-> e])))))

\* is >> d for a double d, for the texts explored here: white space, an
\* optional sign, digits, and an optional '.' with more digits (at least one
\* digit in all).  The value m * 10^x is kept as <<m, x>> with the trailing
\* zeros of the fraction dropped, so that equal numbers are equal values.
RECURSIVE FractionEnd(_, _, _)
FractionEnd(s, b, e) == IF e > b /\ s[e - 1] = "0" THEN FractionEnd(s, b, e - 1) ELSE e

ExtractDouble(s, p) ==
    With(SkipWs(s, p), LAMBDA a :
    With(a <= Len(s) /\ s[a] \in {"+", "-"}, LAMBDA hasSign :
    With(IF hasSign THEN a + 1 ELSE a, LAMBDA b :
    With(DigitsEnd(s, b), LAMBDA e1 :
    With(e1 <= Len(s) /\ s[e1] = ".", LAMBDA hasPoint :
    With(IF hasPoint THEN DigitsEnd(s, e1 + 1) ELSE e1, LAMBDA e2 :
    With(IF hasPoint THEN FractionEnd(s, e1 + 1, e2) ELSE e1, LAMBDA f :
    With(DigitsValue(s, b, e1, 0), LAMBDA whole :
    With(IF hasPoint THEN DigitsValue(s, e1 + 1, f, whole) ELSE whole, LAMBDA m :
        IF (e1 - b) + (IF hasPoint THEN e2 - (e1 + 1) ELSE 0) = 0
        THEN [ok |-> FALSE, val |-> <<0, 0>>, pos |-> b]
        ELSE [ok |-> TRUE,
              val |-> <<IF hasSign /\ s[a] = "-" THEN 0 - m ELSE m,
                        IF hasPoint THEN (e1 + 1) - f ELSE 0>>,
              pos |-> e2])))))))))

StartsWith(s, p, word) ==
    /\ p + Len(word) - 1 <= Len(s)
    /\ \A k \in 1..Len(word) : s[p + k - 1] = word[k]

TrueName == <<"t", "r", "u", "e">>

FalseName == <<"f", "a", "l", "s", "e">>

\* customize_stream<bool>::extract: s >> e as a number (0 or 1; any other
\* number sets failbit); on failure the state is cleared and s >> e is
\* retried with boolalpha from where the first attempt stopped.
ExtractBool(s, p) ==
    With(ExtractInteger(s, p, TRUE), LAMBDA n :
    With(SkipWs(s, n.pos), LAMBDA q :
        IF n.ok /\ n.val \in {0, 1} THEN [ok |-> TRUE, val |-> n.val = 1, pos |-> n.pos]
        ELSE IF StartsWith(s, q, TrueName) THEN [ok |-> TRUE, val |-> TRUE, pos |-> q + Len(TrueName)]
        ELSE IF StartsWith(s, q, FalseName) THEN [ok |-> TRUE, val |-> FALSE, pos |-> q + Len(FalseName)]
        ELSE [ok |-> FALSE, val |-> FALSE, pos |-> q]))

\* stream_translator<T>::get_value: extract, skip trailing white space, and
\* give no value unless the extraction succeeded and the text is used up.
\* std::string goes through id_translator: the text itself.
get_value_optional(data, T) ==
    IF T = "string" THEN Some(data)
    ELSE With(CASE T = "unsigned" -> ExtractInteger(data, 1, FALSE)
                [] T = "int" -> ExtractInteger(data, 1, TRUE)
                [] T = "double" -> ExtractDouble(data, 1)
                [] T = "bool" -> ExtractBool(data, 1),
              LAMBDA r : IF r.ok /\ SkipWs(data, r.pos) > Len(data) THEN Some(r.val) ELSE None)

----------------------------------------------------------------------------
(* Property tree access (boost::property_tree) *)

\* The index of the first child of pt with the given key, 0 when none.
RECURSIVE FindFrom(_, _, _)
FindFrom(pt, key, i) ==
    IF i > Len(pt.kids) THEN 0
    ELSE IF pt.kids[i][1] = key THEN i
    ELSE FindFrom(pt, key, i + 1)

\* Walks the path key by key, each time into the first child of that key.
RECURSIVE get_child_optional(_, _)
get_child_optional(pt, path) ==
    IF path = <<>> THEN Some(pt)
    ELSE With(FindFrom(pt, Head(path), 1), LAMBDA i :
            IF i = 0 THEN None ELSE get_child_optional(pt.kids[i][2], Tail(path)))

\* node.get_optional<T>(path): absent when the path leads nowhere, and
\* absent as well when the text found does not convert to T.
get_optional(pt, path, T) ==
    With(get_child_optional(pt, path), LAMBDA child :
        IF child = None THEN None ELSE get_value_optional(child[1].data, T))

\* node.get<T>(path): throws ptree_bad_path when the path leads nowhere and
\* ptree_bad_data when the text does not convert.
get(pt, path, T) ==
    With(get_child_optional(pt, path), LAMBDA child :
        IF child = None THEN Throw(ptree_bad_path(path))
        ELSE With(get_value_optional(child[1].data, T), LAMBDA value :
                IF value = None THEN Throw(ptree_bad_data(child[1].data)) ELSE Ok(value[1])))

\* node.get<T>(path, default): get_optional<T>(path).get_value_or(default).
get_or(pt, path, T, default) ==
    With(get_optional(pt, path, T), LAMBDA value : IF value = None THEN default ELSE value[1])

\* boost::optional<T> to std::optional<T>.
convert(opt) == opt

\* The path that addresses attribute `name` of an element.
XmlAttr(name) == <<"<xmlattr>", name>>

\* read_xml's tree of one element: the attributes, when there are any, are
\* the children of a first child keyed "<xmlattr>"; the child elements
\* follow in document order.  attrs is a sequence of <<name, text>>.
Element(tag, attrs, children) ==
    <<tag,
      [data |-> <<>>,
       kids |-> (IF attrs = <<>> THEN <<>>
                 ELSE << <<"<xmlattr>",
                           [data |-> <<>>,
                            kids |-> [k \in 1..Len(attrs) |->
                                         <<attrs[k][1], [data |-> attrs[k][2], kids |-> <<>>]>>]]>> >>)
                \o children]>>

----------------------------------------------------------------------------
(* Leaf translators *)

parseDefaultExperiment(node) ==
    Ok([startTime |-> convert(get_optional(node, XmlAttr("startTime"), "double")),
        stopTime |-> convert(get_optional(node, XmlAttr("stopTime"), "double")),
        stepSize |-> convert(get_optional(node, XmlAttr("stepSize"), "double")),
        tolerance |-> convert(get_optional(node, XmlAttr("tolerance"), "double"))])

parseFile(node) ==
    Try(get(node, XmlAttr("name"), "string"), LAMBDA name : Ok([name |-> name]))

RECURSIVE parseSourceFilesFrom(_, _, _)
parseSourceFilesFrom(node, i, files) ==
    IF i > Len(node.kids) THEN Ok(files)
    ELSE IF node.kids[i][1] = "File"
    THEN Try(parseFile(node.kids[i][2]), LAMBDA file :
            parseSourceFilesFrom(node, i + 1, Append(files, file)))
    ELSE parseSourceFilesFrom(node, i + 1, files)

parseSourceFiles(node, files) == parseSourceFilesFrom(node, 1, files)

----------------------------------------------------------------------------
(* Unknown: the list-valued attributes *)

RECURSIVE DependenciesLoop(_, _, _)
DependenciesLoop(s, p, store) ==
    LET r == ExtractInteger(s, p, FALSE)
    IN IF ~r.ok THEN store
       ELSE LET q == IF r.pos <= Len(s) /\ s[r.pos] \in {",", " "} THEN r.pos + 1 ELSE r.pos
            IN DependenciesLoop(s, q, Append(store, r.val))

\* parseUnknownDependencies without the ss.ignore() of lines 71-73.
RECURSIVE DependenciesLoopNoIgnore(_, _, _)
DependenciesLoopNoIgnore(s, p, store) ==
    LET r == ExtractInteger(s, p, FALSE)
    IN IF ~r.ok THEN store ELSE DependenciesLoopNoIgnore(s, r.pos, Append(store, r.val))

parseUnknownDependencies_NoIgnore(str, store) == DependenciesLoopNoIgnore(str, 1, store)

parseUnknownDependencies(str, store) == DependenciesLoop(str, 1, store)

\* boost::split with token_compress_off: every ' ' ends a token, the last
\* token ends at the end of the text; tokens may be empty.
RECURSIVE SplitLoop(_, _, _, _)
SplitLoop(s, p, token, store) ==
    IF p > Len(s) THEN Append(store, token)
    ELSE IF s[p] = " " THEN SplitLoop(s, p + 1, <<>>, Append(store, token))
    ELSE SplitLoop(s, p + 1, Append(token, s[p]), store)

parseUnknownDependenciesKind(str, store) == SplitLoop(str, 1, <<>>, <<>>)

parseUnknown(node) ==
    Try(get(node, XmlAttr("index"), "unsigned"), LAMBDA index :
    With(get_optional(node, XmlAttr("dependencies"), "string"), LAMBDA opt_dependencies :
    With(get_optional(node, XmlAttr("dependenciesKind"), "string"), LAMBDA opt_dependenciesKind :
        Ok([index |-> index,
            dependencies |->
                IF opt_dependencies # None
                THEN Some(parseUnknownDependencies(opt_dependencies[1], <<>>))
                ELSE None,
            dependenciesKind |->
                IF opt_dependenciesKind # None
                THEN Some(parseUnknownDependenciesKind(opt_dependenciesKind[1], <<>>))
                ELSE None]))))

RECURSIVE loadUnknownsFrom(_, _, _)
loadUnknownsFrom(node, i, vector) ==
    IF i > Len(node.kids) THEN Ok(vector)
    ELSE IF node.kids[i][1] = "Unknown"
    THEN Try(parseUnknown(node.kids[i][2]), LAMBDA unknown :
            loadUnknownsFrom(node, i + 1, Append(vector, unknown)))
    ELSE loadUnknownsFrom(node, i + 1, vector)

loadUnknowns(node, vector) == loadUnknownsFrom(node, 1, vector)

\* The loop of parseModelStructure from child i on, ms holding the three
\* vectors filled so far.
RECURSIVE parseModelStructureFrom(_, _, _)
parseModelStructureFrom(node, i, ms) ==
    IF i > Len(node.kids) THEN Ok(ms)
    ELSE With(CASE node.kids[i][1] = "Outputs" -> "outputs"
                [] node.kids[i][1] = "Derivatives" -> "derivatives"
                [] node.kids[i][1] = "InitialUnknowns" -> "initialUnknowns"
                [] OTHER -> "none",
              LAMBDA field :
                IF field = "none" THEN parseModelStructureFrom(node, i + 1, ms)
                ELSE Try(loadUnknowns(node.kids[i][2], ms[field]), LAMBDA loaded :
                        parseModelStructureFrom(node, i + 1, [ms EXCEPT ![field] = loaded])))

parseModelStructure(node) ==
    parseModelStructureFrom(node, 1, [outputs |-> <<>>, derivatives |-> <<>>, initialUnknowns |-> <<>>])

----------------------------------------------------------------------------
(* FMU capability attributes *)

RECURSIVE parseFmuSourceFilesFrom(_, _, _)
parseFmuSourceFilesFrom(node, i, attributes) ==
    IF i > Len(node.kids) THEN Ok(attributes)
    ELSE IF node.kids[i][1] = "SourceFiles"
    THEN Try(parseSourceFiles(node.kids[i][2], attributes.sourceFiles), LAMBDA files :
            parseFmuSourceFilesFrom(node, i + 1, [attributes EXCEPT !.sourceFiles = files]))
    ELSE parseFmuSourceFilesFrom(node, i + 1, attributes)

\* The six capability flags are read through the path "xmlattr>.<name>",
\* whose first key is "xmlattr>" and not "<xmlattr>".
parseFmuAttributes(node) ==
    Try(get(node, XmlAttr("modelIdentifier"), "string"), LAMBDA modelIdentifier :
        parseFmuSourceFilesFrom(node, 1,
            [modelIdentifier |-> modelIdentifier,
             needsExecutionTool |-> get_or(node, <<"xmlattr>", "needsExecutionTool">>, "bool", FALSE),
             canGetAndSetFMUstate |-> get_or(node, <<"xmlattr>", "canGetAndSetFMUstate">>, "bool", FALSE),
             canSerializeFMUstate |-> get_or(node, <<"xmlattr>", "canSerializeFMUstate">>, "bool", FALSE),
             providesDirectionalDerivative |->
                 get_or(node, <<"xmlattr>", "providesDirectionalDerivative">>, "bool", FALSE),
             canNotUseMemoryManagementFunctions |->
                 get_or(node, <<"xmlattr>", "canNotUseMemoryManagementFunctions">>, "bool", FALSE),
             canBeInstantiatedOnlyOncePerProcess |->
                 get_or(node, <<"xmlattr>", "canBeInstantiatedOnlyOncePerProcess">>, "bool", FALSE),
             sourceFiles |-> <<>>]))


parseCoSimulationAttributes(node) ==
    Try(parseFmuAttributes(node), LAMBDA fmu :
        Ok(fmu @@
           [maxOutputDerivativeOrder |-> get_or(node, XmlAttr("maxOutputDerivativeOrder"), "unsigned", 0),
            canInterpolateInputs |-> get_or(node, XmlAttr("canInterpolateInputs"), "bool", FALSE),
            canRunAsynchronuously |-> get_or(node, XmlAttr("canRunAsynchronuously"), "bool", FALSE),
            canHandleVariableCommunicationStepSize |->
                get_or(node, XmlAttr("canHandleVariableCommunicationStepSize"), "bool", FALSE)]))

parseModelExchangeAttributes(node) ==
    Try(parseFmuAttributes(node), LAMBDA fmu :
        Ok(fmu @@
           [completedIntegratorStepNotNeeded |->
                get_or(node, XmlAttr("completedIntegratorStepNotNeeded"), "bool", FALSE)]))


----------------------------------------------------------------------------
(* Scalar variables *)

parseScalarVariableAttributes(node, T) ==
    [start |-> convert(get_optional(node, XmlAttr("start"), T)),
     declaredType |-> convert(get_optional(node, XmlAttr("declaredType"), "string"))]

parseBoundedScalarVariableAttributes(node, T) ==
    parseScalarVariableAttributes(node, T) @@
    [min |-> convert(get_optional(node, XmlAttr("min"), T)),
     max |-> convert(get_optional(node, XmlAttr("max"), T)),
     quantity |-> convert(get_optional(node, XmlAttr("quantity"), "string"))]

parseIntegerAttribute(node) == parseBoundedScalarVariableAttributes(node, "int")

parseRealAttribute(node) ==
    parseBoundedScalarVariableAttributes(node, "double") @@
    [nominal |-> convert(get_optional(node, XmlAttr("nominal"), "double")),
     unit |-> convert(get_optional(node, XmlAttr("unit"), "string")),
     derivative |-> convert(get_optional(node, XmlAttr("derivative"), "unsigned")),
     reinit |-> get_or(node, XmlAttr("reinit"), "bool", FALSE),
     unbounded |-> get_or(node, XmlAttr("unbounded"), "bool", FALSE),
     relativeQuantity |-> get_or(node, XmlAttr("relativeQuantity"), "bool", FALSE)]

parseStringAttribute(node) == parseScalarVariableAttributes(node, "string")

parseBooleanAttribute(node) == parseScalarVariableAttributes(node, "bool")

parseEnumerationAttribute(node) == parseBoundedScalarVariableAttributes(node, "int")

INTEGER_TYPE == "Integer"

REAL_TYPE == "Real"

STRING_TYPE == "String"

BOOLEAN_TYPE == "Boolean"

ENUMERATION_TYPE == "Enumeration"

TypeNames == {INTEGER_TYPE, REAL_TYPE, STRING_TYPE, BOOLEAN_TYPE, ENUMERATION_TYPE}

\* The enum lexers: the empty text is the unspecified variant.
parseCausality(str) ==
    CASE str = <<"p", "a", "r", "a", "m", "e", "t", "e", "r">> -> "parameter"
      [] str = <<"c", "a", "l", "c", "u", "l", "a", "t", "e", "d", "P", "a", "r", "a", "m", "e", "t", "e", "r">> -> "calculatedParameter"
      [] str = <<"i", "n", "p", "u", "t">> -> "input"
      [] str = <<"o", "u", "t", "p", "u", "t">> -> "output"
      [] str = <<"l", "o", "c", "a", "l">> -> "local"
      [] str = <<"i", "n", "d", "e", "p", "e", "n", "d", "e", "n", "t">> -> "independent"
      [] OTHER -> "unspecified"

parseVariability(str) ==
    CASE str = <<"c", "o", "n", "s", "t", "a", "n", "t">> -> "constant"
      [] str = <<"f", "i", "x", "e", "d">> -> "fixed"
      [] str = <<"t", "u", "n", "a", "b", "l", "e">> -> "tunable"
      [] str = <<"d", "i", "s", "c", "r", "e", "t", "e">> -> "discrete"
      [] str = <<"c", "o", "n", "t", "i", "n", "u", "o", "u", "s">> -> "continuous"
      [] OTHER -> "unspecified"

parseInitial(str) ==
    CASE str = <<"e", "x", "a", "c", "t">> -> "exact"
      [] str = <<"a", "p", "p", "r", "o", "x">> -> "approx"
      [] str = <<"c", "a", "l", "c", "u", "l", "a", "t", "e", "d">> -> "calculated"
      [] OTHER -> "unspecified"

\* ScalarVariable(base, attribute): a variable carrying the typed attribute
\* in the slot of its type and nothing in the other four.
ScalarVariable(base, type, attribute) ==
    [base |-> base,
     Integer |-> IF type = INTEGER_TYPE THEN Some(attribute) ELSE None,
     Real |-> IF type = REAL_TYPE THEN Some(attribute) ELSE None,
     String |-> IF type = STRING_TYPE THEN Some(attribute) ELSE None,
     Boolean |-> IF type = BOOLEAN_TYPE THEN Some(attribute) ELSE None,
     Enumeration |-> IF type = ENUMERATION_TYPE THEN Some(attribute) ELSE None]

\* Lines 223-232: the base record read from the attributes of the element.
parseScalarVariableBase(node) ==
    Try(get(node, XmlAttr("name"), "string"), LAMBDA name :
    Try(get(node, XmlAttr("valueReference"), "unsigned"), LAMBDA valueReference :
        Ok([name |-> name,
            description |-> get_or(node, XmlAttr("description"), "string", <<>>),
            valueReference |-> valueReference,
            canHandleMultipleSetPerTimelnstant |->
                get_or(node, XmlAttr("canHandleMultipleSetPerTimelnstant"), "bool", FALSE),
            causality |-> parseCausality(get_or(node, XmlAttr("causality"), "string", <<>>)),
            variability |-> parseVariability(get_or(node, XmlAttr("variability"), "string", <<>>)),
            initial |-> parseInitial(get_or(node, XmlAttr("initial"), "string", <<>>))])))


\* The body of the loop of lines 234-246 for one child v: the variable to
\* return when v is a typed-attribute child, nothing otherwise.
scanChild(base, v) ==
    IF v[1] = INTEGER_TYPE THEN Some(ScalarVariable(base, INTEGER_TYPE, parseIntegerAttribute(v[2])))
    ELSE IF v[1] = REAL_TYPE THEN Some(ScalarVariable(base, REAL_TYPE, parseRealAttribute(v[2])))
    ELSE IF v[1] = STRING_TYPE THEN Some(ScalarVariable(base, STRING_TYPE, parseStringAttribute(v[2])))
    ELSE IF v[1] = BOOLEAN_TYPE THEN Some(ScalarVariable(base, BOOLEAN_TYPE, parseBooleanAttribute(v[2])))
    ELSE IF v[1] = ENUMERATION_TYPE
         THEN Some(ScalarVariable(base, ENUMERATION_TYPE, parseEnumerationAttribute(v[2])))
    ELSE None

FailedToParse == runtime_error("FATAL: Failed to parse ScalarVariable!")

RECURSIVE parseScalarVariableFrom(_, _, _)
parseScalarVariableFrom(node, base, i) ==
    IF i > Len(node.kids) THEN Throw(FailedToParse)
    ELSE With(scanChild(base, node.kids[i]), LAMBDA found :
            IF found # None THEN Ok(found[1]) ELSE parseScalarVariableFrom(node, base, i + 1))

parseScalarVariable(node) ==
    Try(parseScalarVariableBase(node), LAMBDA base : parseScalarVariableFrom(node, base, 1))

\* parseModelVariables putting each variable in front of the earlier ones.
RECURSIVE parseModelVariablesFrom_PushFront(_, _, _)
parseModelVariablesFrom_PushFront(node, i, variables) ==
    IF i > Len(node.kids) THEN Ok([variables |-> variables])
    ELSE IF node.kids[i][1] = "ScalarVariable"
    THEN Try(parseScalarVariable(node.kids[i][2]), LAMBDA var :
            parseModelVariablesFrom_PushFront(node, i + 1, <<var>> \o variables))
    ELSE parseModelVariablesFrom_PushFront(node, i + 1, variables)

RECURSIVE parseModelVariablesFrom(_, _, _)
parseModelVariablesFrom(node, i, variables) ==
    IF i > Len(node.kids) THEN Ok([variables |-> variables])
    ELSE IF node.kids[i][1] = "ScalarVariable"
    THEN Try(parseScalarVariable(node.kids[i][2]), LAMBDA var :
            parseModelVariablesFrom(node, i + 1, Append(variables, var)))
    ELSE parseModelVariablesFrom(node, i + 1, variables)


parseModelVariables(node) == parseModelVariablesFrom(node, 1, <<>>)

----------------------------------------------------------------------------
(* The root translator *)

DEFAULT_VARIABLE_NAMING_CONVENTION == <<"f", "l", "a", "t">>

\* node.get_child(path): throws ptree_bad_path when the path leads nowhere.
get_child(pt, path) ==
    With(get_child_optional(pt, path), LAMBDA child :
        IF child = None THEN Throw(ptree_bad_path(path)) ELSE Ok(child[1]))


\* A default-constructed ModelDescriptionBase: empty texts, an empty
\* ModelVariables and an empty ModelStructure, no DefaultExperiment.  The
\* two owned records are held through pointers, modelled as optionals that
\* are absent when the pointer is null.
ModelDescriptionBase ==
    [guid |-> <<>>, fmiVersion |-> <<>>, modelName |-> <<>>, description |-> <<>>,
     author |-> <<>>, version |-> <<>>, license |-> <<>>, copyright |-> <<>>,
     generationTool |-> <<>>, generationDateAndTime |-> <<>>,
     numberOfEventIndicators |-> 0, variableNamingConvention |-> <<>>,
     modelVariables |-> Some([variables |-> <<>>]),
     modelStructure |-> Some([outputs |-> <<>>, derivatives |-> <<>>, initialUnknowns |-> <<>>]),
     defaultExperiment |-> None]

\* Lines 271-288: the identity attributes of the root, and the locals of
\* parseModelDescription as they stand before the loop.
readBase(root) ==
    Try(get(root, XmlAttr("guid"), "string"), LAMBDA guid :
    Try(get(root, XmlAttr("fmiVersion"), "string"), LAMBDA fmiVersion :
    Try(get(root, XmlAttr("modelName"), "string"), LAMBDA modelName :
        Ok([base |-> [ModelDescriptionBase EXCEPT
                !.guid = guid,
                !.fmiVersion = fmiVersion,
                !.modelName = modelName,
                !.description = get_or(root, XmlAttr("description"), "string", <<>>),
                !.author = get_or(root, XmlAttr("author"), "string", <<>>),
                !.version = get_or(root, XmlAttr("version"), "string", <<>>),
                !.license = get_or(root, XmlAttr("license"), "string", <<>>),
                !.copyright = get_or(root, XmlAttr("copyright"), "string", <<>>),
                !.generationTool = get_or(root, XmlAttr("generationTool"), "string", <<>>),
                !.generationDateAndTime =
                    get_or(root, XmlAttr("generationDateAndTime"), "string", <<>>),
                !.numberOfEventIndicators =
                    get_or(root, XmlAttr("numberOfEventIndicators"), "unsigned", 0),
                !.variableNamingConvention =
                    get_or(root, XmlAttr("variableNamingConvention"), "string",
                           DEFAULT_VARIABLE_NAMING_CONVENTION)],
            coSimulation |-> None,
            modelExchange |-> None]))))


RootTags == {"CoSimulation", "ModelExchange", "DefaultExperiment", "ModelVariables", "ModelStructure"}

\* dispatch with the ModelExchange branch also clearing coSimulation, as if
\* the two flavours shared one slot.
dispatch_OneFlavour(locals, v) ==
    CASE v[1] = "CoSimulation" ->
            Try(parseCoSimulationAttributes(v[2]), LAMBDA parsed :
                Ok([locals EXCEPT !.coSimulation = Some(parsed)]))
      [] v[1] = "ModelExchange" ->
            Try(parseModelExchangeAttributes(v[2]), LAMBDA parsed :
                Ok([locals EXCEPT !.modelExchange = Some(parsed), !.coSimulation = None]))
      [] v[1] = "DefaultExperiment" ->
            Try(parseDefaultExperiment(v[2]), LAMBDA parsed :
                Ok([locals EXCEPT !.base.defaultExperiment = Some(parsed)]))
      [] v[1] = "ModelVariables" ->
            Try(parseModelVariables(v[2]), LAMBDA parsed :
                Ok([locals EXCEPT !.base.modelVariables = Some(parsed)]))
      [] v[1] = "ModelStructure" ->
            Try(parseModelStructure(v[2]), LAMBDA parsed :
                Ok([locals EXCEPT !.base.modelStructure = Some(parsed)]))
      [] OTHER -> Ok(locals)

\* dispatch with the ModelStructure branch storing into the slot of the
\* ModelVariables branch above it.
dispatch_WrongSlot(locals, v) ==
    CASE v[1] = "CoSimulation" ->
            Try(parseCoSimulationAttributes(v[2]), LAMBDA parsed :
                Ok([locals EXCEPT !.coSimulation = Some(parsed)]))
      [] v[1] = "ModelExchange" ->
            Try(parseModelExchangeAttributes(v[2]), LAMBDA parsed :
                Ok([locals EXCEPT !.modelExchange = Some(parsed)]))
      [] v[1] = "DefaultExperiment" ->
            Try(parseDefaultExperiment(v[2]), LAMBDA parsed :
                Ok([locals EXCEPT !.base.defaultExperiment = Some(parsed)]))
      [] v[1] = "ModelVariables" ->
            Try(parseModelVariables(v[2]), LAMBDA parsed :
                Ok([locals EXCEPT !.base.modelVariables = Some(parsed)]))
      [] v[1] = "ModelStructure" ->
            Try(parseModelStructure(v[2]), LAMBDA parsed :
                Ok([locals EXCEPT !.base.modelVariables = Some(parsed)]))
      [] OTHER -> Ok(locals)

\* The body of the loop of lines 290-304 for one child v of the root.
dispatch(locals, v) ==
    CASE v[1] = "CoSimulation" ->
            Try(parseCoSimulationAttributes(v[2]), LAMBDA parsed :
                Ok([locals EXCEPT !.coSimulation = Some(parsed)]))
      [] v[1] = "ModelExchange" ->
            Try(parseModelExchangeAttributes(v[2]), LAMBDA parsed :
                Ok([locals EXCEPT !.modelExchange = Some(parsed)]))
      [] v[1] = "DefaultExperiment" ->
            Try(parseDefaultExperiment(v[2]), LAMBDA parsed :
                Ok([locals EXCEPT !.base.defaultExperiment = Some(parsed)]))
      [] v[1] = "ModelVariables" ->
            Try(parseModelVariables(v[2]), LAMBDA parsed :
                Ok([locals EXCEPT !.base.modelVariables = Some(parsed)]))
      [] v[1] = "ModelStructure" ->
            Try(parseModelStructure(v[2]), LAMBDA parsed :
                Ok([locals EXCEPT !.base.modelStructure = Some(parsed)]))
      [] OTHER -> Ok(locals)


\* Line 306: the ModelDescription made of base, coSimulation, modelExchange.
ModelDescription(locals) ==
    locals.base @@ [coSimulation |-> locals.coSimulation, modelExchange |-> locals.modelExchange]

RECURSIVE dispatchFrom(_, _, _)
dispatchFrom(root, i, locals) ==
    IF i > Len(root.kids) THEN Ok(locals)
    ELSE Try(dispatch(locals, root.kids[i]), LAMBDA next : dispatchFrom(root, i + 1, next))

\* parseModelDescription as one function of the document read.
parseModelDescription(document) ==
    Try(get_child(document, <<"fmiModelDescription">>), LAMBDA root :
    Try(readBase(root), LAMBDA locals :
    Try(dispatchFrom(root, 1, locals), LAMBDA final : Ok(ModelDescription(final)))))


----------------------------------------------------------------------------
(* Inputs: elements as read_xml delivers them *)

\* The attribute list of an element from <<name, optional text>> pairs:
\* the attributes that are present, in the order given.
Present(pair) == pair[2] # None

Attributes(pairs) ==
    LET present == SelectSeq(pairs, Present)
    IN [k \in 1..Len(present) |-> <<present[k][1], present[k][2][1]>>]

Optional(S) == {None} \cup {Some(x) : x \in S}

UnknownElement(index, dependencies, dependenciesKind) ==
    Element("Unknown",
            Attributes(<< <<"index", index>>, <<"dependencies", dependencies>>,
                          <<"dependenciesKind", dependenciesKind>> >>),
            <<>>)

IndexTexts == Strings({"0", "1", " ", "x"}, MaxIndexLen)

DependenciesTexts ==
    Strings({"1", "2", ",", " ", "x", "+"}, MaxDepLen)
        \cup {<<"1", ",", "2", " ", "3", ",", "4">>, <<"1", "0", ",", " ", "7">>}

DependenciesKindTexts == Strings({"a", "b", " "}, MaxKindLen)

UnknownElements ==
    {UnknownElement(i, d, k) :
        i \in Optional(IndexTexts), d \in {None, Some(<<"1">>)}, k \in {None, Some(<<"a">>)}}
    \cup {UnknownElement(Some(<<"1">>), d, k) :
        d \in Optional(DependenciesTexts), k \in {None, Some(<<>>), Some(<<"a", " ", "b">>)}}
    \cup {UnknownElement(Some(<<"2">>), d, k) :
        d \in {None, Some(<<"1">>)}, k \in Optional(DependenciesKindTexts)}

FileElement(name) == Element("File", Attributes(<< <<"name", name>> >>), <<>>)

FmuElement(tag, modelIdentifier, files) ==
    Element(tag, Attributes(<< <<"modelIdentifier", modelIdentifier>> >>),
            IF files = <<>> THEN <<>> ELSE << Element("SourceFiles", <<>>, files) >>)

ScalarVariableElement(name, valueReference, children) ==
    Element("ScalarVariable",
            Attributes(<< <<"name", name>>, <<"valueReference", valueReference>> >>),
            children)

TypedElement(tag, start) == Element(tag, Attributes(<< <<"start", start>> >>), <<>>)

IntegerElement(start) == TypedElement("Integer", start)

FmuFlags ==
    <<"needsExecutionTool", "canGetAndSetFMUstate", "canSerializeFMUstate",
      "providesDirectionalDerivative", "canNotUseMemoryManagementFunctions",
      "canBeInstantiatedOnlyOncePerProcess">>

FlagTexts == {TrueName, FalseName, <<"1">>, <<"0">>, <<"x">>}

\* An FMU element with the capability flags of `flags` (a set of positions
\* in FmuFlags) set to `text`, and two more defaulted attributes.
FlaggedFmuElement(tag, modelIdentifier, flags, text, order, interpolate) ==
    Element(tag,
            Attributes(<< <<"modelIdentifier", modelIdentifier>> >>
                       \o [k \in 1..Len(FmuFlags) |->
                              <<FmuFlags[k], IF k \in flags THEN Some(text) ELSE None>>]
                       \o << <<"maxOutputDerivativeOrder", order>>,
                             <<"canInterpolateInputs", interpolate>>,
                             <<"completedIntegratorStepNotNeeded", interpolate>> >>),
            <<>>)

FmuElements ==
    {FlaggedFmuElement(tag, id, flags, text, None, None) :
        tag \in {"CoSimulation", "ModelExchange"}, id \in {None, Some(<<"m">>)},
        flags \in {{}, 1..Len(FmuFlags)} \cup {{k} : k \in 1..Len(FmuFlags)}, text \in FlagTexts}
    \cup {FlaggedFmuElement(tag, Some(<<"m">>), {}, TrueName, order, interpolate) :
        tag \in {"CoSimulation", "ModelExchange"},
        order \in {None, Some(<<"2">>), Some(<<"x">>)},
        interpolate \in {None, Some(TrueName), Some(<<"x">>)}}
    \cup {FmuElement(tag, Some(<<"m">>), files) :
        tag \in {"CoSimulation", "ModelExchange"},
        files \in Strings({FileElement(Some(<<"a">>)), FileElement(Some(<<"b">>)),
                           FileElement(None), Element("Folder", <<>>, <<>>)}, MaxListLen)}
    \cup {Element("CoSimulation", <<<<"modelIdentifier", <<"m">>>>>>,
                  << Element("SourceFiles", <<>>, << FileElement(Some(<<"a">>)) >>),
                     Element("SourceFiles", <<>>, << FileElement(Some(<<"b">>)) >>) >>)}

DoubleTexts == {<<"0">>, <<"1", ".", "5", "0">>, <<" ", "2">>, <<"x">>}

DefaultExperimentElements ==
    {Element("DefaultExperiment",
             Attributes(<< <<"startTime", a>>, <<"stopTime", b>>, <<"stepSize", c>>,
                           <<"tolerance", d>> >>), <<>>) :
        a \in Optional(DoubleTexts), b \in Optional(DoubleTexts),
        c \in {None, Some(<<"1">>)}, d \in {None, Some(<<"-", "1">>), Some(<<>>)}}

ScalarVariableChildren ==
    {TypedElement("Integer", Some(<<"2">>)), TypedElement("Integer", Some(<<"x">>)),
     TypedElement("Real", Some(<<"0", ".", "5">>)), TypedElement("String", Some(<<"s">>)),
     TypedElement("Boolean", Some(TrueName)), TypedElement("Enumeration", None),
     Element("Annotations", <<>>, <<>>)}

ScalarVariableElements ==
    {ScalarVariableElement(name, valueReference, children) :
        name \in {None, Some(<<"x">>)},
        valueReference \in {None, Some(<<"1">>), Some(<<"x">>)},
        children \in Strings(ScalarVariableChildren, MaxListLen)}

ModelVariablesElements ==
    {Element("ModelVariables", <<>>, children) :
        children \in Strings(
            {ScalarVariableElement(Some(<<"x">>), Some(<<"1">>), << TypedElement("Integer", None) >>),
             ScalarVariableElement(Some(<<"y">>), Some(<<"2">>),
                                   << TypedElement("Real", Some(<<"x">>)) >>),
             ScalarVariableElement(Some(<<"z">>), Some(<<"3">>), <<>>),
             ScalarVariableElement(None, Some(<<"4">>), << TypedElement("Integer", None) >>),
             Element("Annotations", <<>>, <<>>)},
            MaxListLen)}

UnknownChildren ==
    {UnknownElement(Some(<<"1">>), None, None),
     UnknownElement(Some(<<"2">>), Some(<<"1", ",", "2">>), Some(<<"a">>)),
     UnknownElement(Some(<<"0">>), None, None),
     UnknownElement(None, None, None),
     Element("Annotations", <<>>, <<>>)}

SectionTags == {"Outputs", "Derivatives", "InitialUnknowns", "Annotations"}

ModelStructureElements ==
    {Element("ModelStructure", <<>>, << Element(section, <<>>, children) >>) :
        section \in SectionTags, children \in Strings(UnknownChildren, MaxListLen)}
    \cup {Element("ModelStructure", <<>>,
                  << Element(first, <<>>, one), Element(second, <<>>, other) >>) :
        first \in SectionTags, second \in SectionTags,
        one \in Strings(UnknownChildren, 1), other \in Strings(UnknownChildren, 1)}

Elements ==
    UnknownElements \cup FmuElements \cup DefaultExperimentElements
        \cup ModelVariablesElements \cup ModelStructureElements

----------------------------------------------------------------------------
(* The translators applied to one element each *)

InitElement ==
    /\ tree \in Elements
    /\ pc = "call"
    /\ it = 0
    /\ local = <<>>
    /\ ret = <<>>

\* The translator called on the element under examination came back with r.
Back(r) ==
    /\ ret' = r
    /\ pc' = IF r.ok THEN "returned" ELSE "thrown"
    /\ UNCHANGED <<tree, it, local>>

CallParseUnknown ==
    /\ pc = "call"
    /\ tree[1] = "Unknown"
    /\ Back(parseUnknown(tree[2]))

CallParseCoSimulationAttributes ==
    /\ pc = "call"
    /\ tree[1] = "CoSimulation"
    /\ Back(parseCoSimulationAttributes(tree[2]))

CallParseModelExchangeAttributes ==
    /\ pc = "call"
    /\ tree[1] = "ModelExchange"
    /\ Back(parseModelExchangeAttributes(tree[2]))

CallParseDefaultExperiment ==
    /\ pc = "call"
    /\ tree[1] = "DefaultExperiment"
    /\ Back(parseDefaultExperiment(tree[2]))

CallParseModelVariables ==
    /\ pc = "call"
    /\ tree[1] = "ModelVariables"
    /\ Back(parseModelVariables(tree[2]))

CallParseModelStructure ==
    /\ pc = "call"
    /\ tree[1] = "ModelStructure"
    /\ Back(parseModelStructure(tree[2]))


NextElement ==
    \/ CallParseUnknown
    \/ CallParseCoSimulationAttributes
    \/ CallParseModelExchangeAttributes
    \/ CallParseDefaultExperiment
    \/ CallParseModelVariables
    \/ CallParseModelStructure

SpecElement == InitElement /\ [][NextElement]_vars


\* The text of attribute `name` of the element under examination, if any.
AttributeText(name) == get_optional(tree[2], XmlAttr(name), "string")

\* The integer tokens of s from p on as C7 words them: a maximal run of
\* digits is a token, at most one ',' or ' ' after it is skipped, and the
\* list ends where no digit follows.
RECURSIVE TokensAsClaimed(_, _)
TokensAsClaimed(s, p) ==
    LET e == DigitsEnd(s, p)
        q == IF e <= Len(s) /\ s[e] \in {",", " "} THEN e + 1 ELSE e
    IN IF e = p THEN <<>> ELSE <<DigitsValue(s, p, e, 0)>> \o TokensAsClaimed(s, q)

\* The same with a token read as formatted extraction reads it: spaces in
\* front of it and a '+' sign belong to the token.
RECURSIVE TokensExtracted(_, _)
TokensExtracted(s, p) ==
    LET a == SkipWs(s, p)
        b == IF a <= Len(s) /\ s[a] = "+" THEN a + 1 ELSE a
        e == DigitsEnd(s, b)
        q == IF e <= Len(s) /\ s[e] \in {",", " "} THEN e + 1 ELSE e
    IN IF e = b THEN <<>> ELSE <<DigitsValue(s, b, e, 0)>> \o TokensExtracted(s, q)

\* C7 as claimed: dependencies is absent exactly when the attribute is, and
\* otherwise is the list of digit tokens with at most one separator
\* character skipped after each token and nothing else skipped.
C7_DependenciesAsClaimed ==
    (pc = "returned" /\ tree[1] = "Unknown") =>
        LET text == AttributeText("dependencies")
        IN /\ (ret.val.dependencies = None) <=> (text = None)
           /\ text # None => ret.val.dependencies[1] = TokensAsClaimed(text[1], 1)

\* C7 amended: dependencies is absent exactly when the attribute is absent;
\* when present it is the list of integer tokens read left to right, a token
\* being read with the spaces in front of it skipped and an optional '+'
\* accepted, and at most one ',' or ' ' skipped after it; reading stops
\* silently where no integer token follows (the empty text gives a present
\* empty list), and parseUnknown never fails because of this attribute.
C7_Dependencies ==
    /\ (pc = "returned" /\ tree[1] = "Unknown") =>
        LET text == AttributeText("dependencies")
        IN /\ (ret.val.dependencies = None) <=> (text = None)
           /\ text # None => ret.val.dependencies[1] = TokensExtracted(text[1], 1)
           /\ text = Some(<<>>) => ret.val.dependencies = Some(<<>>)
    /\ (pc = "thrown" /\ tree[1] = "Unknown") => ret.exc.type \in {"ptree_bad_path", "ptree_bad_data"}
                        /\ (ret.exc.type = "ptree_bad_path" => ret.exc.path = XmlAttr("index"))
                        /\ (ret.exc.type = "ptree_bad_data" => Some(ret.exc.data) = AttributeText("index"))

C7_Witness ==
    /\ pc = "returned"
    /\ tree[1] = "Unknown"
    /\ AttributeText("dependencies") = Some(<<"1", ",", "2", " ", "3", ",", "4">>)
    /\ ret.val.dependencies = Some(<<1, 2, 3, 4>>)

\* C8 as claimed: the parsed dependenciesKind list holds no empty string.
C8_NoEmptyKind ==
    (pc = "returned" /\ tree[1] = "Unknown" /\ ret.val.dependenciesKind # None) =>
        \A k \in 1..Len(ret.val.dependenciesKind[1]) : ret.val.dependenciesKind[1][k] # <<>>

\* C1 as claimed: each of the six capability flags of a parsed
\* <CoSimulation> or <ModelExchange> is the boolean value of the attribute
\* of that name when the element has it, and false when it has not.
C1_FlagsHonoured ==
    (pc = "returned" /\ tree[1] \in {"CoSimulation", "ModelExchange"}) =>
        \A k \in 1..Len(FmuFlags) :
            LET text == AttributeText(FmuFlags[k])
                value == get_value_optional(text[1], "bool")
            IN /\ text = None => ret.val[FmuFlags[k]] = FALSE
               /\ (text # None /\ value # None) => ret.val[FmuFlags[k]] = value[1]

\* The children of `node` keyed `key`, in document order.
Matching(node, key) == SelectSeq(node.kids, LAMBDA v : v[1] = key)

RECURSIVE Flatten(_)
Flatten(lists) == IF lists = <<>> THEN <<>> ELSE Head(lists) \o Flatten(Tail(lists))

\* The children keyed `inner` of the children keyed `outer` of `node`, in
\* document order.
MatchingWithin(node, outer, inner) ==
    Flatten([k \in 1..Len(Matching(node, outer)) |-> Matching(Matching(node, outer)[k][2], inner)])

\* `list` has one entry per element of `children`, the k-th entry being what
\* Parse makes of the k-th child.
EntryPerChild(list, children, Parse(_)) ==
    /\ Len(list) = Len(children)
    /\ \A k \in 1..Len(children) : Parse(children[k][2]) = Ok(list[k])

\* C3: the list emitted for a list-bearing element has one entry per child
\* with the matching tag (ScalarVariable in ModelVariables, File in
\* SourceFiles, Unknown in Outputs, Derivatives and InitialUnknowns), in the
\* order of those children in the document; children with another tag
\* contribute nothing.
C3_ListOrder ==
    pc = "returned" =>
        /\ tree[1] = "ModelVariables" =>
              EntryPerChild(ret.val.variables, Matching(tree[2], "ScalarVariable"), parseScalarVariable)
        /\ tree[1] \in {"CoSimulation", "ModelExchange"} =>
              EntryPerChild(ret.val.sourceFiles, MatchingWithin(tree[2], "SourceFiles", "File"), parseFile)
        /\ tree[1] = "ModelStructure" =>
              /\ EntryPerChild(ret.val.outputs, MatchingWithin(tree[2], "Outputs", "Unknown"), parseUnknown)
              /\ EntryPerChild(ret.val.derivatives,
                               MatchingWithin(tree[2], "Derivatives", "Unknown"), parseUnknown)
              /\ EntryPerChild(ret.val.initialUnknowns,
                               MatchingWithin(tree[2], "InitialUnknowns", "Unknown"), parseUnknown)

\* A <ModelVariables> with two different variables around a child of
\* another tag, parsed into the two variables in that order.
C3_Witness ==
    /\ pc = "returned"
    /\ tree[1] = "ModelVariables"
    /\ Len(tree[2].kids) = 3
    /\ tree[2].kids[2][1] = "Annotations"
    /\ Len(ret.val.variables) = 2
    /\ ret.val.variables[1].base.name = <<"x">>
    /\ ret.val.variables[2].base.name = <<"y">>

\* The attributes the translator of an element reads through the optional
\* or with-default coercion, with the type each is coerced to.
CoercedAttributes(tag) ==
    CASE tag = "DefaultExperiment" ->
            {<<"startTime", "double">>, <<"stopTime", "double">>, <<"stepSize", "double">>,
             <<"tolerance", "double">>}
      [] tag = "CoSimulation" ->
            {<<"maxOutputDerivativeOrder", "unsigned">>, <<"canInterpolateInputs", "bool">>}
      [] tag = "ModelExchange" -> {<<"completedIntegratorStepNotNeeded", "bool">>}
      [] OTHER -> {}

\* C9 as claimed: a translator does not return when an attribute it reads
\* through the optional or with-default coercion is present with a text
\* that does not convert to its type.
C9_MalformedFails ==
    pc = "returned" =>
        \A a \in CoercedAttributes(tree[1]) :
            AttributeText(a[1]) # None => get_value_optional(AttributeText(a[1])[1], a[2]) # None

\* C10 as claimed: every Unknown of a returned ModelStructure has an index
\* of at least 1 and only non-negative dependencies.
C10_IndexOneBased ==
    (pc = "returned" /\ tree[1] = "ModelStructure") =>
        \A field \in {"outputs", "derivatives", "initialUnknowns"} :
            \A k \in 1..Len(ret.val[field]) :
                /\ ret.val[field][k].index >= 1
                /\ ret.val[field][k].dependencies # None =>
                      \A d \in 1..Len(ret.val[field][k].dependencies[1]) :
                          ret.val[field][k].dependencies[1][d] >= 0

----------------------------------------------------------------------------
(* parseModelDescription, step by step, on a document *)

Document(attrs, children) ==
    <<"modelDescription.xml",
      [data |-> <<>>, kids |-> << Element("fmiModelDescription", attrs, children) >>]>>

RootChildren ==
    {FmuElement("CoSimulation", Some(<<"m">>), <<>>),
     FmuElement("CoSimulation", Some(<<"n">>), << FileElement(Some(<<"a">>)) >>),
     FmuElement("CoSimulation", None, <<>>),
     FmuElement("CoSimulation", Some(<<"m">>), << FileElement(None) >>),
     FmuElement("ModelExchange", Some(<<"m">>), <<>>),
     FmuElement("ModelExchange", None, <<>>),
     Element("DefaultExperiment", <<<<"startTime", <<"0">>>>>>, <<>>),
     Element("ModelVariables", <<>>, <<>>),
     Element("ModelVariables", <<>>,
             << ScalarVariableElement(Some(<<"x">>), Some(<<"1">>), << IntegerElement(Some(<<"2">>)) >>) >>),
     Element("ModelVariables", <<>>,
             << ScalarVariableElement(None, Some(<<"1">>), << IntegerElement(None) >>) >>),
     Element("ModelVariables", <<>>,
             << ScalarVariableElement(Some(<<"x">>), None, << IntegerElement(None) >>) >>),
     Element("ModelVariables", <<>>,
             << ScalarVariableElement(Some(<<"x">>), Some(<<"1">>), <<>>) >>),
     Element("ModelStructure", <<>>,
             << Element("Outputs", <<>>, << UnknownElement(Some(<<"1">>), None, None) >>) >>),
     Element("ModelStructure", <<>>,
             << Element("Outputs", <<>>, << UnknownElement(None, None, None) >>) >>),
     Element("VendorAnnotations", <<>>, <<>>)}

RootAttributes(guid, fmiVersion, modelName, numberOfEventIndicators) ==
    Attributes(<< <<"fmiVersion", fmiVersion>>, <<"modelName", modelName>>, <<"guid", guid>>,
                  <<"numberOfEventIndicators", numberOfEventIndicators>> >>)

FullRootAttributes == RootAttributes(Some(<<"g">>), Some(<<"2", ".", "0">>), Some(<<"M">>), None)

OtherRootAttributes ==
    {RootAttributes(g, f, m, n) :
        g \in {None, Some(<<"g">>)}, f \in {None, Some(<<"2", ".", "0">>)},
        m \in {None, Some(<<"M">>)}, n \in {None, Some(<<"2">>), Some(<<"x">>)}}

Documents ==
    {Document(FullRootAttributes, children) : children \in Strings(RootChildren, MaxRootChildren)}
    \cup {Document(attrs, children) :
            attrs \in OtherRootAttributes, children \in Strings(RootChildren, 1)}
    \cup {<<"modelDescription.xml", [data |-> <<>>, kids |-> <<>>]>>}

Init ==
    /\ tree \in Documents
    /\ pc = "start"
    /\ it = 0
    /\ local = <<>>
    /\ ret = <<>>

\* Lines 267-288: read the document, find the root, read its attributes.
ReadRoot ==
    /\ pc = "start"
    /\ With(Try(get_child(tree[2], <<"fmiModelDescription">>), LAMBDA root :
            Try(readBase(root), LAMBDA locals : Ok([root |-> root] @@ locals))),
            LAMBDA entered :
                IF entered.ok
                THEN pc' = "loop" /\ it' = 1 /\ local' = entered.val /\ UNCHANGED ret
                ELSE pc' = "thrown" /\ ret' = entered /\ UNCHANGED <<it, local>>)
    /\ UNCHANGED tree

\* One turn of the loop of lines 290-304 came back with next: the locals
\* after the branch taken, or the exception it let through.
Turned(next) ==
    /\ IF next.ok
       THEN local' = next.val /\ it' = it + 1 /\ UNCHANGED <<pc, ret>>
       ELSE pc' = "thrown" /\ ret' = next /\ UNCHANGED <<it, local>>
    /\ UNCHANGED tree

AtChild == pc = "loop" /\ it <= Len(local.root.kids)

VisitCoSimulation ==
    /\ AtChild
    /\ local.root.kids[it][1] = "CoSimulation"
    /\ Turned(dispatch(local, local.root.kids[it]))

VisitModelExchange ==
    /\ AtChild
    /\ local.root.kids[it][1] = "ModelExchange"
    /\ Turned(dispatch(local, local.root.kids[it]))

VisitDefaultExperiment ==
    /\ AtChild
    /\ local.root.kids[it][1] = "DefaultExperiment"
    /\ Turned(dispatch(local, local.root.kids[it]))

VisitModelVariables ==
    /\ AtChild
    /\ local.root.kids[it][1] = "ModelVariables"
    /\ Turned(dispatch(local, local.root.kids[it]))

VisitModelStructure ==
    /\ AtChild
    /\ local.root.kids[it][1] = "ModelStructure"
    /\ Turned(dispatch(local, local.root.kids[it]))

\* A child no branch matches (the "<xmlattr>" child among them).
VisitOther ==
    /\ AtChild
    /\ local.root.kids[it][1] \notin RootTags
    /\ Turned(dispatch(local, local.root.kids[it]))


\* Line 306.
Return ==
    /\ pc = "loop"
    /\ it > Len(local.root.kids)
    /\ ret' = Ok(ModelDescription(local))
    /\ pc' = "returned"
    /\ UNCHANGED <<tree, it, local>>

Next ==
    \/ ReadRoot
    \/ VisitCoSimulation
    \/ VisitModelExchange
    \/ VisitDefaultExperiment
    \/ VisitModelVariables
    \/ VisitModelStructure
    \/ VisitOther
    \/ Return

Spec == Init /\ [][Next]_vars

Finished == pc \in {"returned", "thrown"}

\* The root element of the document under examination (when it has one).
Root == tree[2].kids[1][2]

HasRoot == Len(tree[2].kids) = 1

\* The positions of the children of `node` keyed `key`, and their subtrees.
Keyed(node, key) == {i \in 1..Len(node.kids) : node.kids[i][1] = key}

Subtrees(node, key) == {node.kids[i][2] : i \in Keyed(node, key)}

Lacks(node, name) == get_child_optional(node, XmlAttr(name)) = None

\* The <<element, attribute>> pairs of the document whose required
\* attribute is missing, over the elements the translators descend into.
MissingRequired ==
    IF ~HasRoot THEN {}
    ELSE {<<"fmiModelDescription", a>> : a \in {a \in {"guid", "fmiVersion", "modelName"} : Lacks(Root, a)}}
         \cup {<<t, "modelIdentifier">> :
                 t \in {t \in {"CoSimulation", "ModelExchange"} :
                           \E n \in Subtrees(Root, t) : Lacks(n, "modelIdentifier")}}
         \cup {<<"File", "name">> :
                 n \in {n \in UNION {Subtrees(f, "SourceFiles") :
                                        f \in Subtrees(Root, "CoSimulation") \cup Subtrees(Root, "ModelExchange")} :
                           \E file \in Subtrees(n, "File") : Lacks(file, "name")}}
         \cup {<<"ScalarVariable", a>> :
                 a \in {a \in {"name", "valueReference"} :
                           \E mv \in Subtrees(Root, "ModelVariables") :
                               \E sv \in Subtrees(mv, "ScalarVariable") : Lacks(sv, a)}}
         \cup {<<"Unknown", "index">> :
                 n \in {n \in UNION {Subtrees(ms, sec) :
                                        ms \in Subtrees(Root, "ModelStructure"),
                                        sec \in {"Outputs", "Derivatives", "InitialUnknowns"}} :
                           \E u \in Subtrees(n, "Unknown") : Lacks(u, "index")}}

\* What an exception tells about the place of the failure: the keys of the
\* path of a ptree_bad_path; a ptree_bad_data and a runtime_error carry no
\* path.
PathKeys(exc) ==
    IF exc.type = "ptree_bad_path" THEN {exc.path[k] : k \in 1..Len(exc.path)} ELSE {}

\* C5 as claimed: a document with a required attribute missing is never
\* parsed into a ModelDescription (the failure reaches the entry point), and
\* the missing-attribute error identifies the element and the attribute.
C5_MissingAttributeAsClaimed ==
    /\ (Finished /\ MissingRequired # {}) => (pc = "thrown" /\ ~ret.ok)
    /\ (pc = "thrown" /\ ret.exc.type = "ptree_bad_path" /\ HasRoot) =>
          \E m \in MissingRequired : m[1] \in PathKeys(ret.exc) /\ m[2] \in PathKeys(ret.exc)

SameOutcome(a, b) == a.ok = b.ok /\ (a.ok => a.val = b.val)

Orderings(n) == {p \in [1..n -> 1..n] : \A i, j \in 1..n : p[i] = p[j] => i = j}

\* The child elements of the root: its children but the "<xmlattr>" one,
\* which read_xml puts first.
FirstElement == IF Len(Root.kids) > 0 /\ Root.kids[1][1] = "<xmlattr>" THEN 2 ELSE 1

\* The document with the children of its root replaced by `kids`.
WithRootChildren(kids) == [tree[2] EXCEPT !.kids[1][2].kids = kids]

\* The documents that differ from the one under examination in the order of
\* the child elements of the root only.
Reorderings ==
    {WithRootChildren([i \in 1..Len(Root.kids) |->
                          IF i < FirstElement THEN Root.kids[i]
                          ELSE Root.kids[FirstElement - 1 + p[i - (FirstElement - 1)]]]) :
        p \in Orderings(Len(Root.kids) - (FirstElement - 1))}

\* C4 as claimed: a document and any reordering of the child elements of
\* its root parse to equal ModelDescriptions.
C4_ReorderAsClaimed ==
    (Finished /\ HasRoot) => \A d \in Reorderings : SameOutcome(parseModelDescription(d), ret)

\* C4 amended: when each of CoSimulation, ModelExchange, DefaultExperiment,
\* ModelVariables and ModelStructure occurs at most once among the children
\* of the root, a document and any reordering of those children either both
\* fail or parse to equal ModelDescriptions.
C4_Reorder ==
    (Finished /\ HasRoot /\ \A t \in RootTags : Cardinality(Keyed(Root, t)) <= 1) =>
        \A d \in Reorderings : SameOutcome(parseModelDescription(d), ret)

\* <ModelExchange>, <CoSimulation>, <ModelVariables> in that order, parsed.
C4_Witness ==
    /\ pc = "returned"
    /\ Len(Root.kids) = 4
    /\ Root.kids[2][1] = "ModelExchange"
    /\ Root.kids[3][1] = "CoSimulation"
    /\ Root.kids[4][1] = "ModelVariables"
    /\ ret.val.coSimulation # None
    /\ ret.val.modelExchange # None
    /\ Len(ret.val.modelVariables[1].variables) = 1

----------------------------------------------------------------------------
(* parseScalarVariable, step by step, on one <ScalarVariable> element *)

InitScalarVariable ==
    /\ tree \in ScalarVariableElements
    /\ pc = "base"
    /\ it = 0
    /\ local = <<>>
    /\ ret = <<>>

\* Lines 223-232: the base is read; the scan starts in state "searching".
ReadBase ==
    /\ pc = "base"
    /\ With(parseScalarVariableBase(tree[2]), LAMBDA base :
            IF base.ok
            THEN pc' = "searching" /\ it' = 1 /\ local' = base.val /\ UNCHANGED ret
            ELSE pc' = "thrown" /\ ret' = base /\ UNCHANGED <<it, local>>)
    /\ UNCHANGED tree

\* Lines 235-245: the child is a typed-attribute child; the variable is
\* returned.
ResolveChild ==
    /\ pc = "searching"
    /\ it <= Len(tree[2].kids)
    /\ scanChild(local, tree[2].kids[it]) # None
    /\ ret' = Ok(scanChild(local, tree[2].kids[it])[1])
    /\ pc' = "resolved"
    /\ UNCHANGED <<tree, it, local>>

\* Line 246: no branch matches the child; on to the next one.
SkipChild ==
    /\ pc = "searching"
    /\ it <= Len(tree[2].kids)
    /\ scanChild(local, tree[2].kids[it]) = None
    /\ it' = it + 1
    /\ UNCHANGED <<tree, pc, local, ret>>

\* Line 248: the children are used up.
EndOfChildren ==
    /\ pc = "searching"
    /\ it > Len(tree[2].kids)
    /\ ret' = Throw(FailedToParse)
    /\ pc' = "failed"
    /\ UNCHANGED <<tree, it, local>>

NextScalarVariable ==
    \/ ReadBase
    \/ ResolveChild
    \/ SkipChild
    \/ EndOfChildren

SpecScalarVariable == InitScalarVariable /\ [][NextScalarVariable]_vars

\* The position of the first typed-attribute child, 0 when there is none.
FirstRecognized ==
    IF \E k \in 1..Len(tree[2].kids) : tree[2].kids[k][1] \in TypeNames
    THEN CHOOSE k \in 1..Len(tree[2].kids) :
            /\ tree[2].kids[k][1] \in TypeNames
            /\ \A j \in 1..(k - 1) : tree[2].kids[j][1] \notin TypeNames
    ELSE 0

\* The typed-attribute variants a variable carries.
Populated(variable) == {t \in TypeNames : variable[t] # None}

\* The texts of the document an exception carries: the text that did not
\* convert, for a ptree_bad_data.  A ptree_bad_path carries a path, and a
\* runtime_error its fixed message.
Texts(exc) == IF exc.type = "ptree_bad_data" THEN {exc.data} ELSE {}

\* C2 as claimed: the scan is in "searching" while no typed-attribute child
\* has been met; it resolves at the first such child, examines none after
\* it, and returns a variable carrying that child's variant and no other;
\* at the end of the children it fails, no variable is returned, and the
\* error names the variable.
C2_ScanAsClaimed ==
    /\ pc = "searching" =>
          \A k \in 1..(it - 1) : tree[2].kids[k][1] \notin TypeNames
    /\ pc = "resolved" =>
          /\ ret.ok
          /\ it = FirstRecognized
          /\ Populated(ret.val) = {tree[2].kids[it][1]}
    /\ pc = "failed" =>
          /\ FirstRecognized = 0
          /\ ~ret.ok
          /\ local.name \in Texts(ret.exc)

====
